---------------------------- MODULE Spec2Model ----------------------------
(***************************************************************************)
(* The author-request workflow of QuanLyBaiBao_BE                          *)
(* (src/controllers/author/authorRequest.controller.js).                   *)
(*                                                                         *)
(* The controller file holds two versions of the workflow:                 *)
(*   - lines 569-1894: createAuthorRequest / approveAuthorRequest /        *)
(*     rejectAuthorRequest with nested claimed-work tables, a stored       *)
(*     procedure fast path and a manual multi-step fallback.  Its actions  *)
(*     make up Next and the specification Spec.                            *)
(*   - lines 1-568: submitAuthorRequest / approveAuthorRequest /           *)
(*     rejectAuthorRequest writing the tables directly.  Its actions carry *)
(*     the prefix S and make up SNext and the specification SpecSimple.    *)
(*                                                                         *)
(* Every await of a handler is a suspension point, so every store call is  *)
(* one atomic action and the handlers of different invocations interleave  *)
(* between them.  An invocation runs in a task slot; tasks[t].pc is the    *)
(* store call it issues next.  resp is the response sent by the step just  *)
(* taken (NoResp when the step sent none).                                 *)
(***************************************************************************)
EXTENDS Naturals, Sequences, FiniteSets

\* ------------------------------------------------------------ bounds
\* Invocations that may be in flight at the same time.
MaxTasks == 2
\* Store or gateway calls that fail in one behaviour.
MaxFaults == 1

\* ------------------------------------------------------------ data
Tasks == 1..MaxTasks
\* users 1 and 2 sign up with role "user"; user 3 is an administrator.
Users == {1, 2, 3}
Roles == {"user", "author", "admin"}
Files == {1, 2}
\* A files row: the polymorphic owner (content_type, content_id); by is the
\* invocation that wrote the row last: <<"create", request id>>,
\* <<"approve", id of the authors row the invocation inserted>>,
\* <<"rpc", request id>>, or <<"none", 0>>.
NoFile == [content_type |-> "null", content_id |-> 0, by |-> <<"none", 0>>]

\* A request body.  articles, journals, books hold the titles of the claimed
\* works, institutions the (name, country, city) keys of the claimed
\* institutions; first_name / last_name tell whether the field is present.
BodyOf(fn, ln, arts, jrns, bks, insts, fids, notes) ==
    [first_name |-> fn, last_name |-> ln, articles |-> arts, journals |-> jrns,
     books |-> bks, institutions |-> insts, file_ids |-> fids,
     admin_notes |-> notes]

EmptyBody == BodyOf(FALSE, FALSE, <<>>, <<>>, <<>>, <<>>, {}, FALSE)

\* User 1 claims two articles and an institution and attaches both files;
\* user 2 claims a journal, a book and the same institution and attaches
\* file 2; a body may lack last_name.
ArticlesBody == BodyOf(TRUE, TRUE, <<1, 2>>, <<>>, <<>>, <<1>>, {1, 2}, FALSE)

BooksBody == BodyOf(TRUE, TRUE, <<>>, <<1>>, <<1>>, <<1>>, {2}, FALSE)

InstitutionBody == BodyOf(TRUE, TRUE, <<>>, <<>>, <<>>, <<1>>, {}, FALSE)

NamelessBody == BodyOf(TRUE, FALSE, <<1>>, <<>>, <<>>, <<>>, {1}, FALSE)

OneArticleBody == BodyOf(TRUE, TRUE, <<1>>, <<>>, <<>>, <<>>, {1}, FALSE)

TwoInstitutionsBody == BodyOf(TRUE, TRUE, <<>>, <<>>, <<>>, <<1, 2>>, {}, FALSE)

FirstNamelessBody == BodyOf(FALSE, TRUE, <<>>, <<1>>, <<>>, <<1>>, {2}, FALSE)

\* The body of a rejection: admin_notes tells whether the reason is present.
NotesBody(n) == BodyOf(FALSE, FALSE, <<>>, <<>>, <<>>, <<>>, {}, n)

\* An HTTP call: the handler, the authenticated caller, the :id parameter and
\* the body.
Call(op, u, id, body) == [op |-> op, user |-> u, id |-> id, body |-> body]

\* The workloads: the calls the clients issue, in the order they arrive; up to
\* MaxTasks of them are in flight at the same time.
Scenarios ==
    { \* two approvals of the same request
      << Call("create", 1, 0, ArticlesBody), Call("approve", 3, 1, EmptyBody),
         Call("approve", 3, 1, EmptyBody) >>,
      \* an approval and a rejection of the same request, then a resubmission
      << Call("create", 1, 0, ArticlesBody), Call("approve", 3, 1, EmptyBody),
         Call("reject", 3, 1, NotesBody(TRUE)), Call("create", 1, 0, ArticlesBody) >>,
      \* two submissions of the same user
      << Call("create", 1, 0, ArticlesBody), Call("create", 1, 0, ArticlesBody) >>,
      \* two requests that claim the same institution
      << Call("create", 1, 0, InstitutionBody), Call("create", 2, 0, BooksBody),
         Call("approve", 3, 1, EmptyBody), Call("approve", 3, 2, EmptyBody) >>,
      \* calls that fail their checks
      << Call("create", 2, 0, InstitutionBody), Call("create", 3, 0, BooksBody),
         Call("create", 1, 0, NamelessBody), Call("approve", 1, 1, EmptyBody),
         Call("reject", 1, 1, NotesBody(TRUE)), Call("reject", 3, 1, NotesBody(FALSE)),
         Call("reject", 3, 1, NotesBody(TRUE)), Call("approve", 3, 1, EmptyBody),
         Call("create", 2, 0, InstitutionBody) >>,
      \* rejections: without a reason by a user, and two in a row by the admin;
      \* a submission without first_name
      << Call("create", 2, 0, InstitutionBody), Call("reject", 1, 1, NotesBody(FALSE)),
         Call("reject", 3, 1, NotesBody(TRUE)), Call("reject", 3, 1, NotesBody(TRUE)),
         Call("create", 3, 0, FirstNamelessBody) >>,
      \* one claimed article with a file
      << Call("create", 1, 0, OneArticleBody), Call("approve", 3, 1, EmptyBody) >>,
      \* two claimed institutions
      << Call("create", 1, 0, TwoInstitutionsBody), Call("approve", 3, 1, EmptyBody) >> }

NoRequest ==
    [id |-> 0, user_id |-> 0, articles |-> <<>>, journals |-> <<>>,
     books |-> <<>>, institutions |-> <<>>]

\* The local state of a handler.  arts (the ids of the articles the invocation
\* inserted), had (the files attached to the request when it was looked up)
\* and ok1 (whether the file update of the first claimed article succeeded)
\* record the invocation's history.
IdleTask ==
    [op |-> "idle", pc |-> "idle", user |-> 0, role |-> "user", id |-> 0,
     body |-> EmptyBody, request |-> NoRequest, author |-> 0, k |-> 0,
     new |-> 0, arts |-> <<>>, had |-> {}, ok1 |-> FALSE, path |-> "none"]

\* A response: the HTTP status, the kind of failure the body reports ("none"
\* for a success), and the local state the handler ended with.
NoResp == [res |-> 0, err |-> "none", task |-> IdleTask]

VARIABLES
    db,     \* the entity store: one field per table
    sent,   \* the notifications the gateway delivered: <<kind, request id>>
    tasks,  \* the invocations in flight, by task slot
    resp,   \* the response the last step sent, or NoResp
    granted, \* the 200 responses of approveAuthorRequest so far:
            \* <<request_id, author_id>> (author_id 0 when the body has none)
    faults, \* store and gateway calls that failed so far
    load    \* the calls the clients have not issued yet

vars == <<db, sent, tasks, resp, granted, faults, load>>

\* ------------------------------------------------------------ store helpers
\* The outcomes of a store or gateway call: it succeeds, or (within the
\* budget) it returns an error.
Outcomes == IF faults < MaxFaults THEN {TRUE, FALSE} ELSE {TRUE}

Count(ok) == IF ok THEN faults ELSE faults + 1

\* A variant of the query below without the status filter.
RequestsOfUser(d, u) ==
    { r \in DOMAIN d.author_requests : d.author_requests[r].user_id = u }

\* .from('author_requests').select().eq('user_id', u)
\*     .or('status.eq.pending,status.eq.approved')
ExistingRequests(d, u) ==
    { r \in DOMAIN d.author_requests :
        /\ d.author_requests[r].user_id = u
        /\ d.author_requests[r].status \in {"pending", "approved"} }

\* .from('author_requests').insert({user_id, ..., status: 'pending'})
InsertRequest(d, u) ==
    [d EXCEPT
       !.author_requests = Append(@, [user_id |-> u, status |-> "pending",
                                      admin_notes |-> FALSE, reviewed_by |-> 0,
                                      bio |-> FALSE]),
       !.author_request_articles = Append(@, <<>>),
       !.author_request_journals = Append(@, <<>>),
       !.author_request_books = Append(@, <<>>),
       !.author_request_institutions = Append(@, <<>>)]

\* .from('files').update({content_type, content_id}).in('id', file_ids)
RetargetByIds(d, fids, ctype, cid, who) ==
    [d EXCEPT !.files =
        [f \in Files |->
            IF f \in fids
            THEN [content_type |-> ctype, content_id |-> cid, by |-> who]
            ELSE @[f]]]

\* The files attached to request rid.
AttachedTo(d, rid) ==
    { f \in Files : /\ d.files[f].content_type = "author_request"
                    /\ d.files[f].content_id = rid }

\* A variant of the update below that also matches the files the same
\* invocation retargeted before.
RetargetOwn(d, rid, ctype, cid, who) ==
    [d EXCEPT !.files =
        [f \in Files |->
            IF \/ @[f].content_type = "author_request" /\ @[f].content_id = rid
               \/ @[f].by = who
            THEN [content_type |-> ctype, content_id |-> cid, by |-> who]
            ELSE @[f]]]

\* .from('files').update({content_type, content_id})
\*     .eq('content_type', 'author_request').eq('content_id', request.id)
RetargetFromRequest(d, rid, ctype, cid, who) ==
    [d EXCEPT !.files =
        [f \in Files |->
            IF @[f].content_type = "author_request" /\ @[f].content_id = rid
            THEN [content_type |-> ctype, content_id |-> cid, by |-> who]
            ELSE @[f]]]

\* The stored procedure of the fast path.  The repository does not create it:
\* a database has it (db.functions) or every call of it fails.
Procedure == "approve_author_request_transaction"

HasProcedure(d) == Procedure \in d.functions

\* The state after start-up, before the first call of one of the workloads, in
\* a database with one of the sets installed of stored procedures.
Start(loads, installed) ==
    /\ \E fs \in installed :
         db = [functions |-> fs,
               users |-> [u \in Users |-> IF u = 3 THEN "admin" ELSE "user"],
               author_requests |-> <<>>,
               author_request_articles |-> <<>>,
               author_request_journals |-> <<>>,
               author_request_books |-> <<>>,
               author_request_institutions |-> <<>>,
               authors |-> <<>>,
               institutions |-> <<>>,
               articles |-> <<>>,
               author_articles |-> {},
               journals |-> <<>>,
               books |-> <<>>,
               author_books |-> {},
               files |-> [f \in Files |-> NoFile]]
    /\ sent = {}
    /\ tasks = [t \in Tasks |-> IdleTask]
    /\ resp = NoResp
    /\ granted = {}
    /\ faults = 0
    /\ load \in loads

Init == Start(Scenarios, SUBSET {Procedure})

\* The handler of task t answers with HTTP status code and is over: the slot
\* is free again.
Respond(t, code, err) ==
    /\ tasks' = [tasks EXCEPT ![t] = IdleTask]
    /\ resp' = [res |-> code, err |-> err, task |-> tasks[t]]
    /\ granted' = IF tasks[t].op = "approve" /\ code = 200
                  THEN granted \cup {<<tasks[t].id, tasks[t].author>>}
                  ELSE granted
    /\ UNCHANGED load

\* The handler of task t goes on as task2 after its store call.
Continue(t, task2) ==
    /\ tasks' = [tasks EXCEPT ![t] = task2]
    /\ resp' = NoResp
    /\ UNCHANGED <<granted, load>>

\* The next call c arrives and its invocation starts in the first free slot.
\* verifyToken reads the caller's users row: req.user.role is that snapshot
\* for the rest of the handler.  The handler then runs up to its first store
\* call: when one of the checks before it fails (err # "none") it answers code
\* at once.
Begin(t, c, pc, code, err) ==
    /\ tasks[t].pc = "idle"
    /\ \A x \in Tasks : x < t => tasks[x].pc # "idle"
    /\ LET task == [IdleTask EXCEPT !.op = c.op, !.pc = pc, !.user = c.user,
                                    !.role = db.users[c.user], !.id = c.id,
                                    !.body = c.body]
       IN  IF err = "none"
           THEN /\ tasks' = [tasks EXCEPT ![t] = task]
                /\ resp' = NoResp
           ELSE /\ resp' = [res |-> code, err |-> err, task |-> task]
                /\ UNCHANGED tasks
    /\ load' = Tail(load)
    /\ UNCHANGED <<db, sent, granted, faults>>

\* ------------------------------------------------------------ createAuthorRequest
\* The store calls of createAuthorRequest after the request insert, in program
\* order; a step whose list is empty issues no call.
CreateSteps ==
    <<"c_articles", "c_journals", "c_books", "c_institutions", "c_files", "c_fetch">>

HasWork(b, s) ==
    CASE s = "c_articles" -> b.articles # <<>>
      [] s = "c_journals" -> b.journals # <<>>
      [] s = "c_books" -> b.books # <<>>
      [] s = "c_institutions" -> b.institutions # <<>>
      [] s = "c_files" -> b.file_ids # {}
      [] OTHER -> TRUE

CreateAfter(b, i) ==
    CreateSteps[CHOOSE j \in (i + 1)..Len(CreateSteps) :
                    /\ HasWork(b, CreateSteps[j])
                    /\ \A m \in (i + 1)..(j - 1) : ~HasWork(b, CreateSteps[m])]

\* A variant of the call below without the required-field check.
CreateUnvalidated(t) ==
    /\ load # <<>>
    /\ Head(load).op = "create"
    /\ Begin(t, Head(load), "c_check", 400, "none")

\* The required-field check precedes the first store call.
CreateAuthorRequest(t) ==
    /\ load # <<>>
    /\ Head(load).op = "create"
    /\ Begin(t, Head(load), "c_check", 400,
             IF Head(load).body.first_name /\ Head(load).body.last_name
             THEN "none" ELSE "validation")

\* A variant of the checks below without the existing-request conflict.
CreateCheckNoExisting(d, task, ok) ==
    IF ~ok THEN "store"
    ELSE IF task.role \in {"author", "admin"} THEN "role"
    ELSE "none"

\* A variant of the checks below without the role conflict.
CreateCheckNoRole(d, task, ok) ==
    IF ~ok THEN "store"
    ELSE IF \E r \in ExistingRequests(d, task.user) :
                d.author_requests[r].status = "pending" THEN "pending"
    ELSE IF ExistingRequests(d, task.user) # {} THEN "approved"
    ELSE "none"

\* The existing-request query and the role check.
CreateCheckResult(d, task, ok) ==
    IF ~ok THEN "store"
    ELSE IF \E r \in ExistingRequests(d, task.user) :
                d.author_requests[r].status = "pending" THEN "pending"
    ELSE IF ExistingRequests(d, task.user) # {} THEN "approved"
    ELSE IF task.role \in {"author", "admin"} THEN "role"
    ELSE "none"

CreateCheck(t) ==
    /\ tasks[t].pc = "c_check"
    /\ \E ok \in Outcomes :
         LET e == CreateCheckResult(db, tasks[t], ok)
         IN  /\ faults' = Count(ok)
             /\ IF e = "none"
                THEN Continue(t, [tasks[t] EXCEPT !.pc = "c_insert"])
                ELSE Respond(t, 400, e)
    /\ UNCHANGED <<db, sent>>

CreateInsert(t) ==
    /\ tasks[t].pc = "c_insert"
    /\ \E ok \in Outcomes :
         /\ faults' = Count(ok)
         /\ IF ok
            THEN /\ db' = InsertRequest(db, tasks[t].user)
                 /\ Continue(t, [tasks[t] EXCEPT
                                   !.id = Len(db.author_requests) + 1,
                                   !.pc = CreateAfter(tasks[t].body, 0)])
            ELSE /\ Respond(t, 500, "internal")
                 /\ UNCHANGED db
    /\ UNCHANGED sent

\* One of the four child inserts: the rows of the body, tagged with the id of
\* the new request.  An error throws: the handler answers 500.
CreateChildren(t, i, d2) ==
    /\ tasks[t].pc = CreateSteps[i]
    /\ \E ok \in Outcomes :
         /\ faults' = Count(ok)
         /\ IF ok
            THEN /\ db' = d2
                 /\ Continue(t, [tasks[t] EXCEPT
                                   !.pc = CreateAfter(tasks[t].body, i)])
            ELSE /\ Respond(t, 500, "internal")
                 /\ UNCHANGED db
    /\ UNCHANGED sent

CreateArticles(t) ==
    CreateChildren(t, 1,
        [db EXCEPT !.author_request_articles[tasks[t].id] = @ \o tasks[t].body.articles])

CreateJournals(t) ==
    CreateChildren(t, 2,
        [db EXCEPT !.author_request_journals[tasks[t].id] = @ \o tasks[t].body.journals])

CreateBooks(t) ==
    CreateChildren(t, 3,
        [db EXCEPT !.author_request_books[tasks[t].id] = @ \o tasks[t].body.books])

CreateInstitutions(t) ==
    CreateChildren(t, 4,
        [db EXCEPT !.author_request_institutions[tasks[t].id] =
                       @ \o tasks[t].body.institutions])

CreateFiles(t) ==
    CreateChildren(t, 5,
        RetargetByIds(db, tasks[t].body.file_ids, "author_request", tasks[t].id,
                      <<"create", tasks[t].id>>))

\* The select of the full request; an error throws.
CreateFetch(t) ==
    /\ tasks[t].pc = "c_fetch"
    /\ \E ok \in Outcomes :
         /\ faults' = Count(ok)
         /\ IF ok THEN Continue(t, [tasks[t] EXCEPT !.pc = "c_notify"])
                  ELSE Respond(t, 500, "internal")
    /\ UNCHANGED <<db, sent>>

\* The admin broadcast, inside its own try/catch: the admins are read and
\* sendAdminAuthorRequestNotification is called; a failure is logged only.
CreateNotify(t) ==
    /\ tasks[t].pc = "c_notify"
    /\ \E ok \in Outcomes :
         /\ faults' = Count(ok)
         /\ sent' = IF ok /\ (\E u \in Users : db.users[u] = "admin")
                     THEN sent \cup {<<"admin_notification", tasks[t].id>>}
                     ELSE sent
    /\ Respond(t, 201, "none")
    /\ UNCHANGED db

Create(t) ==
    \/ CreateCheck(t) \/ CreateInsert(t) \/ CreateArticles(t) \/ CreateJournals(t)
    \/ CreateBooks(t) \/ CreateInstitutions(t) \/ CreateFiles(t) \/ CreateFetch(t)
    \/ CreateNotify(t)

\* ------------------------------------------------------------ approveAuthorRequest: store calls
\* .from('author_requests').select(`*, user, author_request_articles(*), ...`)
\*     .eq('id', id).eq('status', 'pending').single()
\* The row and its nested children as they are now, or NoRequest.
PendingRequest(d, id) ==
    IF id \in DOMAIN d.author_requests /\ d.author_requests[id].status = "pending"
    THEN [id |-> id, user_id |-> d.author_requests[id].user_id,
          articles |-> d.author_request_articles[id],
          journals |-> d.author_request_journals[id],
          books |-> d.author_request_books[id],
          institutions |-> d.author_request_institutions[id]]
    ELSE NoRequest

\* .from('authors').upsert({user_id, ..., institution_id: null}).select().single()
\* No onConflict column is named and the row carries no id, so the conflict
\* target is the primary key and the statement inserts a new row.
UpsertAuthor(d, uid) ==
    [d EXCEPT !.authors = Append(@, [user_id |-> uid, institution_id |-> 0])]

\* .from('users').update({ role: 'author' }).eq('id', request.user_id)
UpdateRole(d, uid) == [d EXCEPT !.users[uid] = "author"]

\* .from('institutions').select('*').eq('name', ..).eq('country', ..)
\*     .eq('city', ..).limit(1): the ids of the rows that match.
ExistingInstitution(d, key) ==
    { i \in DOMAIN d.institutions : d.institutions[i].key = key }

\* .from('institutions').insert({name, type, country, city, updated_by})
InsertInstitution(d, key, admin) ==
    [d EXCEPT !.institutions = Append(@, [key |-> key, updated_by |-> admin])]

\* A variant of the update below that keeps an institution_id that is set.
UpdateAuthorInstitutionOnce(d, aid, iid) ==
    [d EXCEPT !.authors =
        [a \in DOMAIN @ |->
            IF a = aid /\ @[a].institution_id = 0
            THEN [@[a] EXCEPT !.institution_id = iid]
            ELSE @[a]]]

\* .from('authors').update({ institution_id }).eq('id', author.id)
UpdateAuthorInstitution(d, aid, iid) ==
    [d EXCEPT !.authors =
        [a \in DOMAIN @ |-> IF a = aid THEN [@[a] EXCEPT !.institution_id = iid]
                                       ELSE @[a]]]

\* A canonical articles / journals / books row: title is copied from the claimed
\* work, updated_by is the admin; from records the request it was copied from.
Canonical(title, admin, rid) ==
    [title |-> title, updated_by |-> admin, from |-> rid]

\* .from('articles').insert({title, ..., updated_by})
InsertArticle(d, title, admin, rid) ==
    [d EXCEPT !.articles = Append(@, Canonical(title, admin, rid))]

\* .from('author_articles').insert({author_id, article_id})
LinkArticle(d, aid, id) ==
    [d EXCEPT !.author_articles = @ \cup {<<aid, id>>}]

\* .from('journals').insert({name, ..., updated_by})
InsertJournal(d, title, admin, rid) ==
    [d EXCEPT !.journals = Append(@, Canonical(title, admin, rid))]

\* .from('books').insert({title, ..., updated_by})
InsertBook(d, title, admin, rid) ==
    [d EXCEPT !.books = Append(@, Canonical(title, admin, rid))]

\* .from('author_books').insert({author_id, book_id})
LinkBook(d, aid, id) ==
    [d EXCEPT !.author_books = @ \cup {<<aid, id>>}]

\* A variant of the update below that also clears the claimed-work rows of
\* the request.
UpdateStatusAndClear(d, id, status, notes, admin) ==
    [d EXCEPT !.author_requests =
                 [r \in DOMAIN @ |->
                     IF r = id /\ @[r].status # "deleted"
                     THEN [@[r] EXCEPT !.status = status, !.admin_notes = notes,
                                       !.reviewed_by = admin]
                     ELSE @[r]],
              !.author_request_articles =
                 [r \in DOMAIN @ |-> IF r = id THEN <<>> ELSE @[r]],
              !.author_request_journals =
                 [r \in DOMAIN @ |-> IF r = id THEN <<>> ELSE @[r]],
              !.author_request_books =
                 [r \in DOMAIN @ |-> IF r = id THEN <<>> ELSE @[r]],
              !.author_request_institutions =
                 [r \in DOMAIN @ |-> IF r = id THEN <<>> ELSE @[r]]]

\* .from('author_requests').update({status, admin_notes, reviewed_by, updated_at})
\*     .eq('id', id): the only filter is the id.  A row that deleteAuthorRequest
\* removed (status "deleted") matches no filter.
UpdateStatus(d, id, status, notes, admin) ==
    [d EXCEPT !.author_requests =
        [r \in DOMAIN @ |->
            IF r = id /\ @[r].status # "deleted"
            THEN [@[r] EXCEPT !.status = status, !.admin_notes = notes,
                              !.reviewed_by = admin]
            ELSE @[r]]]

\* ------------------------------------------------------------ the stored procedure
\* approve_author_request_transaction(request_id, admin_id, admin_notes) lives
\* in the database, not in the repository's JavaScript.  It is modelled from
\* the specification: steps 1-6 of the approval in one transaction, with the
\* author upsert keyed by user_id, on the request as it is when the
\* transaction runs.
AuthorsOf(d, uid) == { a \in DOMAIN d.authors : d.authors[a].user_id = uid }

Least(S) == CHOOSE x \in S : \A y \in S : x <= y

RpcAuthorId(d, uid) ==
    IF AuthorsOf(d, uid) # {} THEN Least(AuthorsOf(d, uid)) ELSE Len(d.authors) + 1

RpcUpsertAuthor(d, uid) ==
    IF AuthorsOf(d, uid) # {}
    THEN UpdateAuthorInstitution(d, Least(AuthorsOf(d, uid)), 0)
    ELSE UpsertAuthor(d, uid)

RECURSIVE RpcInstitutions(_, _, _, _)
RpcInstitutions(d, keys, aid, admin) ==
    IF keys = <<>> THEN d
    ELSE LET ex == ExistingInstitution(d, Head(keys))
             d1 == IF ex # {} THEN d ELSE InsertInstitution(d, Head(keys), admin)
             iid == IF ex # {} THEN Least(ex) ELSE Len(d.institutions) + 1
         IN  RpcInstitutions(UpdateAuthorInstitution(d1, aid, iid), Tail(keys),
                             aid, admin)

RECURSIVE RpcArticles(_, _, _, _, _, _)
RpcArticles(d, titles, aid, admin, rid, who) ==
    IF titles = <<>> THEN d
    ELSE LET id == Len(d.articles) + 1
             d1 == LinkArticle(InsertArticle(d, Head(titles), admin, rid), aid, id)
         IN  RpcArticles(RetargetFromRequest(d1, rid, "article", id, who),
                         Tail(titles), aid, admin, rid, who)

RECURSIVE RpcJournals(_, _, _, _, _)
RpcJournals(d, titles, admin, rid, who) ==
    IF titles = <<>> THEN d
    ELSE LET id == Len(d.journals) + 1
             d1 == InsertJournal(d, Head(titles), admin, rid)
         IN  RpcJournals(RetargetFromRequest(d1, rid, "journal", id, who),
                         Tail(titles), admin, rid, who)

RECURSIVE RpcBooks(_, _, _, _, _, _)
RpcBooks(d, titles, aid, admin, rid, who) ==
    IF titles = <<>> THEN d
    ELSE LET id == Len(d.books) + 1
             d1 == LinkBook(InsertBook(d, Head(titles), admin, rid), aid, id)
         IN  RpcBooks(RetargetFromRequest(d1, rid, "book", id, who),
                      Tail(titles), aid, admin, rid, who)

RpcTransaction(d, rid, admin, notes, who) ==
    LET req == PendingRequest(d, rid)
        aid == RpcAuthorId(d, req.user_id)
        d1 == UpdateRole(RpcUpsertAuthor(d, req.user_id), req.user_id)
        d2 == RpcInstitutions(d1, req.institutions, aid, admin)
        d3 == RpcArticles(d2, req.articles, aid, admin, rid, who)
        d4 == RpcJournals(d3, req.journals, admin, rid, who)
        d5 == RpcBooks(d4, req.books, aid, admin, rid, who)
    IN  UpdateStatus(d5, rid, "approved", notes, admin)

\* ------------------------------------------------------------ approveAuthorRequest
\* The loops of the manual sequence, in program order, and the status update
\* that follows them; a loop over an empty list issues no call.
StagePcs ==
    <<"a_inst_check", "a_art_insert", "a_jrn_insert", "a_book_insert", "a_status">>

StageList(req, s) ==
    CASE s = 1 -> req.institutions
      [] s = 2 -> req.articles
      [] s = 3 -> req.journals
      [] s = 4 -> req.books
      [] OTHER -> <<0>>

StageFrom(req, s) ==
    CHOOSE j \in s..Len(StagePcs) :
        /\ StageList(req, j) # <<>>
        /\ \A m \in s..(j - 1) : StageList(req, m) = <<>>

\* The task after item task.k of loop s: the next item, or the next loop.
Advance(task, s) ==
    IF task.k < Len(StageList(task.request, s))
    THEN [task EXCEPT !.k = @ + 1, !.pc = StagePcs[s]]
    ELSE [task EXCEPT !.k = 1, !.pc = StagePcs[StageFrom(task.request, s + 1)]]

\* A variant of the call below whose error is logged and not thrown.
ThrowingNot(t, pc, d2, task2) ==
    /\ tasks[t].pc = pc
    /\ \E ok \in Outcomes :
         /\ faults' = Count(ok)
         /\ db' = IF ok THEN d2 ELSE db
         /\ Continue(t, task2)
    /\ UNCHANGED sent

\* A store call of the manual sequence whose error is thrown: the catch block
\* answers 500 and nothing later runs.
Throwing(t, pc, d2, task2) ==
    /\ tasks[t].pc = pc
    /\ \E ok \in Outcomes :
         /\ faults' = Count(ok)
         /\ IF ok
            THEN /\ db' = d2
                 /\ Continue(t, task2)
            ELSE /\ Respond(t, 500, "internal")
                 /\ UNCHANGED db
    /\ UNCHANGED sent

\* A store call whose error is logged only: the handler goes on either way.
\* ok1 records whether the file update of the first claimed article succeeded.
Swallowing(t, pc, d2, task2) ==
    /\ tasks[t].pc = pc
    /\ \E ok \in Outcomes :
         /\ faults' = Count(ok)
         /\ db' = IF ok THEN d2 ELSE db
         /\ Continue(t, [task2 EXCEPT
                            !.ok1 = IF pc = "a_art_files" /\ tasks[t].k = 1
                                    THEN ok ELSE @])
    /\ UNCHANGED sent

\* The middleware of the approve and reject routes: 403 unless the role that
\* verifyToken read is admin.
isAdmin(role) == role = "admin"

\* The route runs isAdmin before the handler, whose own admin check precedes
\* the first store call.
ApproveAuthorRequest(t) ==
    /\ load # <<>>
    /\ Head(load).op = "approve"
    /\ Begin(t, Head(load), "a_lookup", 403,
             IF isAdmin(db.users[Head(load).user]) THEN "none" ELSE "forbidden")

\* The pending-filtered lookup.
ApproveLookup(t) ==
    /\ tasks[t].pc = "a_lookup"
    /\ \E ok \in Outcomes :
         LET req == PendingRequest(db, tasks[t].id)
         IN  /\ faults' = Count(ok)
             /\ IF ~ok \/ req = NoRequest
                THEN Respond(t, 404, "notfound")
                ELSE Continue(t, [tasks[t] EXCEPT !.request = req, !.pc = "a_rpc",
                                                  !.had = AttachedTo(db, req.id)])
    /\ UNCHANGED <<db, sent>>

\* A variant of the call below that starts the manual sequence after a
\* success too.
ApproveRpcThenManual(t) ==
    /\ tasks[t].pc = "a_rpc"
    /\ \/ /\ HasProcedure(db)
          /\ PendingRequest(db, tasks[t].id) # NoRequest
          /\ db' = RpcTransaction(db, tasks[t].id, tasks[t].user,
                                   tasks[t].body.admin_notes,
                                   <<"rpc", tasks[t].id>>)
          /\ Continue(t, [tasks[t] EXCEPT !.path = "rpc", !.pc = "a_author"])
       \/ /\ Continue(t, [tasks[t] EXCEPT !.path = "manual", !.pc = "a_author"])
          /\ UNCHANGED db
    /\ UNCHANGED <<sent, faults>>

\* supabase.rpc('approve_author_request_transaction'): it reports success, or
\* it reports an error or throws and the manual sequence starts.
ApproveRpc(t) ==
    /\ tasks[t].pc = "a_rpc"
    /\ \/ /\ HasProcedure(db)
          /\ PendingRequest(db, tasks[t].id) # NoRequest
          /\ db' = RpcTransaction(db, tasks[t].id, tasks[t].user,
                                   tasks[t].body.admin_notes,
                                   <<"rpc", tasks[t].id>>)
          /\ Continue(t, [tasks[t] EXCEPT !.path = "rpc", !.pc = "a_rpc_email"])
       \/ /\ Continue(t, [tasks[t] EXCEPT !.path = "manual", !.pc = "a_author"])
          /\ UNCHANGED db
    /\ UNCHANGED <<sent, faults>>

\* sendAuthorApprovalEmail in a try/catch; the response carries request_id and
\* user_id.
ApproveRpcEmail(t) ==
    /\ tasks[t].pc = "a_rpc_email"
    /\ \E ok \in Outcomes :
         /\ faults' = Count(ok)
         /\ sent' = IF ok THEN sent \cup {<<"approval", tasks[t].id>>} ELSE sent
    /\ Respond(t, 200, "none")
    /\ UNCHANGED db

\* 1. the author upsert
ApproveAuthor(t) ==
    Throwing(t, "a_author", UpsertAuthor(db, tasks[t].request.user_id),
             [tasks[t] EXCEPT !.author = Len(db.authors) + 1, !.pc = "a_role"])

\* 2. the role update
ApproveRole(t) ==
    Throwing(t, "a_role", UpdateRole(db, tasks[t].request.user_id),
             [tasks[t] EXCEPT !.k = 1,
                              !.pc = StagePcs[StageFrom(tasks[t].request, 1)]])

\* 3. per claimed institution: the lookup by (name, country, city); limit(1)
\* without an order returns any one of the matching rows.
ApproveInstitutionCheck(t) ==
    /\ tasks[t].pc = "a_inst_check"
    /\ LET ex == ExistingInstitution(db, tasks[t].request.institutions[tasks[t].k])
       IN  \E ok \in Outcomes :
             /\ faults' = Count(ok)
             /\ IF ~ok THEN Respond(t, 500, "internal")
                ELSE IF ex = {}
                THEN Continue(t, [tasks[t] EXCEPT !.pc = "a_inst_insert"])
                ELSE \E i \in ex :
                       Continue(t, [tasks[t] EXCEPT !.new = i,
                                                    !.pc = "a_inst_author"])
    /\ UNCHANGED <<db, sent>>

ApproveInstitutionInsert(t) ==
    Throwing(t, "a_inst_insert",
             InsertInstitution(db, tasks[t].request.institutions[tasks[t].k],
                               tasks[t].user),
             [tasks[t] EXCEPT !.new = Len(db.institutions) + 1,
                              !.pc = "a_inst_author"])

ApproveInstitutionAuthor(t) ==
    Throwing(t, "a_inst_author",
             UpdateAuthorInstitution(db, tasks[t].author, tasks[t].new),
             Advance(tasks[t], 1))

\* 4. per claimed article: the insert, the author link, the file retarget
ApproveArticleInsert(t) ==
    Throwing(t, "a_art_insert",
             InsertArticle(db, tasks[t].request.articles[tasks[t].k], tasks[t].user,
                           tasks[t].request.id),
             [tasks[t] EXCEPT !.new = Len(db.articles) + 1,
                              !.arts = Append(@, Len(db.articles) + 1),
                              !.pc = "a_art_link"])

ApproveArticleLink(t) ==
    Throwing(t, "a_art_link", LinkArticle(db, tasks[t].author, tasks[t].new),
             [tasks[t] EXCEPT !.pc = "a_art_files"])

ApproveArticleFiles(t) ==
    Swallowing(t, "a_art_files",
               RetargetFromRequest(db, tasks[t].request.id, "article", tasks[t].new,
                                   <<"approve", tasks[t].author>>),
               Advance(tasks[t], 2))

\* 5. per claimed journal: the insert, the file retarget
ApproveJournalInsert(t) ==
    Throwing(t, "a_jrn_insert",
             InsertJournal(db, tasks[t].request.journals[tasks[t].k], tasks[t].user,
                           tasks[t].request.id),
             [tasks[t] EXCEPT !.new = Len(db.journals) + 1, !.pc = "a_jrn_files"])

ApproveJournalFiles(t) ==
    Swallowing(t, "a_jrn_files",
               RetargetFromRequest(db, tasks[t].request.id, "journal", tasks[t].new,
                                   <<"approve", tasks[t].author>>),
               Advance(tasks[t], 3))

\* 6. per claimed book: the insert, the author link, the file retarget
ApproveBookInsert(t) ==
    Throwing(t, "a_book_insert",
             InsertBook(db, tasks[t].request.books[tasks[t].k], tasks[t].user,
                        tasks[t].request.id),
             [tasks[t] EXCEPT !.new = Len(db.books) + 1, !.pc = "a_book_link"])

ApproveBookLink(t) ==
    Throwing(t, "a_book_link", LinkBook(db, tasks[t].author, tasks[t].new),
             [tasks[t] EXCEPT !.pc = "a_book_files"])

ApproveBookFiles(t) ==
    Swallowing(t, "a_book_files",
               RetargetFromRequest(db, tasks[t].request.id, "book", tasks[t].new,
                                   <<"approve", tasks[t].author>>),
               Advance(tasks[t], 4))

\* 7. the status update, filtered on the id alone
ApproveStatus(t) ==
    Throwing(t, "a_status",
             UpdateStatus(db, tasks[t].id, "approved", tasks[t].body.admin_notes,
                          tasks[t].user),
             [tasks[t] EXCEPT !.pc = "a_email"])

\* A variant of the call below whose email failure reaches the outer catch.
ApproveEmailThrown(t) ==
    /\ tasks[t].pc = "a_email"
    /\ \E ok \in Outcomes :
         /\ faults' = Count(ok)
         /\ sent' = IF ok THEN sent \cup {<<"approval", tasks[t].id>>} ELSE sent
         /\ Respond(t, IF ok THEN 200 ELSE 500, IF ok THEN "none" ELSE "internal")
    /\ UNCHANGED db

\* 8. sendAuthorApprovalEmail in a try/catch, then the response with
\* request_id, author_id and user_id.
ApproveEmail(t) ==
    /\ tasks[t].pc = "a_email"
    /\ \E ok \in Outcomes :
         /\ faults' = Count(ok)
         /\ sent' = IF ok THEN sent \cup {<<"approval", tasks[t].id>>} ELSE sent
    /\ Respond(t, 200, "none")
    /\ UNCHANGED db

Approve(t) ==
    \/ ApproveLookup(t) \/ ApproveRpc(t) \/ ApproveRpcEmail(t)
    \/ ApproveAuthor(t) \/ ApproveRole(t)
    \/ ApproveInstitutionCheck(t) \/ ApproveInstitutionInsert(t)
    \/ ApproveInstitutionAuthor(t)
    \/ ApproveArticleInsert(t) \/ ApproveArticleLink(t) \/ ApproveArticleFiles(t)
    \/ ApproveJournalInsert(t) \/ ApproveJournalFiles(t)
    \/ ApproveBookInsert(t) \/ ApproveBookLink(t) \/ ApproveBookFiles(t)
    \/ ApproveStatus(t) \/ ApproveEmail(t)

\* ------------------------------------------------------------ rejectAuthorRequest
\* The handler without the middleware of its route: the reason check and
\* then the admin check precede the first store call.
RejectUnguarded(t) ==
    /\ load # <<>>
    /\ Head(load).op = "reject"
    /\ Begin(t, Head(load), "r_lookup",
             IF ~Head(load).body.admin_notes THEN 400 ELSE 403,
             IF ~Head(load).body.admin_notes THEN "validation"
             ELSE IF db.users[Head(load).user] # "admin" THEN "forbidden"
             ELSE "none")

\* A variant of the call below without the reason check.
RejectUnvalidated(t) ==
    /\ load # <<>>
    /\ Head(load).op = "reject"
    /\ Begin(t, Head(load), "r_lookup", 403,
             IF ~isAdmin(db.users[Head(load).user]) THEN "forbidden" ELSE "none")

\* The route runs isAdmin before the handler; in the handler the reason check
\* and then the admin check precede the first store call.
RejectAuthorRequest(t) ==
    /\ load # <<>>
    /\ Head(load).op = "reject"
    /\ Begin(t, Head(load), "r_lookup",
             IF ~isAdmin(db.users[Head(load).user]) THEN 403 ELSE 400,
             IF ~isAdmin(db.users[Head(load).user]) THEN "forbidden"
             ELSE IF ~Head(load).body.admin_notes THEN "validation"
             ELSE "none")

\* The pending-filtered lookup.
RejectLookup(t) ==
    /\ tasks[t].pc = "r_lookup"
    /\ \E ok \in Outcomes :
         /\ faults' = Count(ok)
         /\ IF ~ok \/ PendingRequest(db, tasks[t].id) = NoRequest
            THEN Respond(t, 404, "notfound")
            ELSE Continue(t, [tasks[t] EXCEPT
                               !.request = PendingRequest(db, tasks[t].id),
                               !.pc = "r_status"])
    /\ UNCHANGED <<db, sent>>

\* The status update, filtered on the id alone.
RejectStatus(t) ==
    Throwing(t, "r_status",
             UpdateStatus(db, tasks[t].id, "rejected", tasks[t].body.admin_notes,
                          tasks[t].user),
             [tasks[t] EXCEPT !.pc = "r_email"])

\* sendAuthorRejectionEmail in a try/catch, then the response.
RejectEmail(t) ==
    /\ tasks[t].pc = "r_email"
    /\ \E ok \in Outcomes :
         /\ faults' = Count(ok)
         /\ sent' = IF ok THEN sent \cup {<<"rejection", tasks[t].id>>} ELSE sent
    /\ Respond(t, 200, "none")
    /\ UNCHANGED db

Reject(t) == RejectLookup(t) \/ RejectStatus(t) \/ RejectEmail(t)

\* ------------------------------------------------------------ submitAuthorRequest (lines 4-153)
\* The workloads of the version of lines 1-568.  Its submission takes one
\* institution; first_name stands for the three required fields, admin_notes
\* of a rejection for rejection_reason.
WorksBody == BodyOf(TRUE, TRUE, <<1, 2>>, <<1>>, <<1>>, <<1>>, {}, FALSE)

SScenarios ==
    { << Call("submit", 1, 0, WorksBody), Call("approve", 3, 1, EmptyBody),
         Call("approve", 3, 1, EmptyBody) >>,
      << Call("submit", 1, 0, WorksBody), Call("approve", 3, 1, EmptyBody),
         Call("reject", 3, 1, NotesBody(TRUE)), Call("submit", 1, 0, InstitutionBody) >>,
      << Call("submit", 1, 0, InstitutionBody), Call("submit", 1, 0, InstitutionBody) >>,
      << Call("submit", 2, 0, InstitutionBody), Call("submit", 3, 0, InstitutionBody),
         Call("submit", 1, 0, EmptyBody), Call("approve", 1, 1, EmptyBody),
         Call("reject", 1, 1, NotesBody(TRUE)), Call("reject", 3, 1, NotesBody(FALSE)),
         Call("reject", 3, 1, NotesBody(TRUE)), Call("approve", 3, 1, EmptyBody),
         Call("reject", 3, 1, NotesBody(TRUE)) >>,
      << Call("submit", 2, 0, InstitutionBody), Call("reject", 1, 1, NotesBody(FALSE)),
         Call("reject", 3, 1, NotesBody(TRUE)), Call("reject", 3, 1, NotesBody(TRUE)) >> }

SInit == Start(SScenarios, {{}})

\* The required-field check precedes the first store call.
SSubmitAuthorRequest(t) ==
    /\ load # <<>>
    /\ Head(load).op = "submit"
    /\ Begin(t, Head(load), "s_check", 400,
             IF Head(load).body.first_name THEN "none" ELSE "validation")

\* .from('author_requests').select('id, status').eq('user_id', ..)
\*     .order('created_at', {ascending: false}).limit(1): the newest request
\* of the user, 0 when there is none.
LatestRequest(d, u) ==
    LET own == { r \in DOMAIN d.author_requests : d.author_requests[r].user_id = u }
    IN  IF own = {} THEN 0 ELSE CHOOSE r \in own : \A x \in own : x <= r

\* The check looks at the newest request only and answers 400 when it is
\* pending; checkError is not read, so a failed query lets the handler go on.
SSubmitCheck(t) ==
    /\ tasks[t].pc = "s_check"
    /\ \E ok \in Outcomes :
         LET r == LatestRequest(db, tasks[t].user)
         IN  /\ faults' = Count(ok)
             /\ IF ok /\ r # 0 /\ db.author_requests[r].status = "pending"
                THEN Respond(t, 400, "pending")
                ELSE Continue(t, [tasks[t] EXCEPT !.pc = "s_insert"])
    /\ UNCHANGED <<db, sent>>

\* The steps after the request insert, in program order.
SSubmitSteps == <<"s_institution", "s_books", "s_articles", "s_journals", "s_created">>

SHasWork(b, s) ==
    CASE s = "s_institution" -> b.institutions # <<>>
      [] s = "s_books" -> b.books # <<>>
      [] s = "s_articles" -> b.articles # <<>>
      [] s = "s_journals" -> b.journals # <<>>
      [] OTHER -> TRUE

SSubmitAfter(b, i) ==
    SSubmitSteps[CHOOSE j \in (i + 1)..Len(SSubmitSteps) :
                    /\ SHasWork(b, SSubmitSteps[j])
                    /\ \A m \in (i + 1)..(j - 1) : ~SHasWork(b, SSubmitSteps[m])]

\* The request insert; requestError answers 400.
SSubmitInsert(t) ==
    /\ tasks[t].pc = "s_insert"
    /\ \E ok \in Outcomes :
         /\ faults' = Count(ok)
         /\ IF ok
            THEN /\ db' = InsertRequest(db, tasks[t].user)
                 /\ Continue(t, [tasks[t] EXCEPT
                                   !.id = Len(db.author_requests) + 1,
                                   !.pc = SSubmitAfter(tasks[t].body, 0)])
            ELSE /\ Respond(t, 400, "store")
                 /\ UNCHANGED db
    /\ UNCHANGED sent

\* The rows of list that remain when the inserts at the positions lost fail.
Kept(list, lost) ==
    LET RECURSIVE From(_)
        From(i) == IF i > Len(list) THEN <<>>
                   ELSE IF i \in lost THEN From(i + 1)
                   ELSE <<list[i]>> \o From(i + 1)
    IN  From(1)

\* The inserts of one list of the body, one statement per row, awaited
\* together (Promise.all; a single insert for the institution).  A statement
\* that fails resolves with an error nobody reads.
SSubmitChildren(t, i, table, list) ==
    /\ tasks[t].pc = SSubmitSteps[i]
    /\ \E lost \in SUBSET (1..Len(list)) :
         /\ faults + Cardinality(lost) <= MaxFaults
         /\ faults' = faults + Cardinality(lost)
         /\ db' = [db EXCEPT ![table][tasks[t].id] = @ \o Kept(list, lost)]
    /\ Continue(t, [tasks[t] EXCEPT !.pc = SSubmitAfter(tasks[t].body, i)])
    /\ UNCHANGED sent

SSubmitInstitution(t) ==
    SSubmitChildren(t, 1, "author_request_institutions", tasks[t].body.institutions)

SSubmitBooks(t) ==
    SSubmitChildren(t, 2, "author_request_books", tasks[t].body.books)

SSubmitArticles(t) ==
    SSubmitChildren(t, 3, "author_request_articles", tasks[t].body.articles)

SSubmitJournals(t) ==
    SSubmitChildren(t, 4, "author_request_journals", tasks[t].body.journals)

\* res.status(201)
SSubmitCreated(t) ==
    /\ tasks[t].pc = "s_created"
    /\ Respond(t, 201, "none")
    /\ UNCHANGED <<db, sent, faults>>

SSubmit(t) ==
    \/ SSubmitCheck(t) \/ SSubmitInsert(t) \/ SSubmitInstitution(t)
    \/ SSubmitBooks(t) \/ SSubmitArticles(t) \/ SSubmitJournals(t)
    \/ SSubmitCreated(t)

\* ------------------------------------------------------------ approveAuthorRequest (lines 354-473)
\* The route runs isAdmin before the handler, whose own admin check precedes
\* the first store call.
SApproveAuthorRequest(t) ==
    /\ load # <<>>
    /\ Head(load).op = "approve"
    /\ Begin(t, Head(load), "s_a_lookup", 403,
             IF isAdmin(db.users[Head(load).user]) THEN "none" ELSE "forbidden")

\* .from('author_requests').select(..).eq('id', id).single(), then the check
\* of the status that was read.
SLookup(t, pc, next) ==
    /\ tasks[t].pc = pc
    /\ \E ok \in Outcomes :
         /\ faults' = Count(ok)
         /\ IF ~ok \/ tasks[t].id \notin DOMAIN db.author_requests
            THEN Respond(t, 404, "notfound")
            ELSE IF db.author_requests[tasks[t].id].status # "pending"
            THEN Respond(t, 400, "reviewed")
            ELSE Continue(t, [tasks[t] EXCEPT
                               !.request = PendingRequest(db, tasks[t].id),
                               !.pc = next])
    /\ UNCHANGED <<db, sent>>

SApproveLookup(t) == SLookup(t, "s_a_lookup", "s_a_status")

\* A status update of this version: updateError answers 400.
SStatus(t, pc, status, next) ==
    /\ tasks[t].pc = pc
    /\ \E ok \in Outcomes :
         /\ faults' = Count(ok)
         /\ IF ok
            THEN /\ db' = UpdateStatus(db, tasks[t].id, status,
                                       tasks[t].body.admin_notes, tasks[t].user)
                 /\ Continue(t, [tasks[t] EXCEPT !.pc = next])
            ELSE /\ Respond(t, 400, "store")
                 /\ UNCHANGED db
    /\ UNCHANGED sent

\* The status update comes first.
SApproveStatus(t) == SStatus(t, "s_a_status", "approved", "s_a_author")

\* .from('authors').insert([{.., user_id}]); authorError is logged only.
SApproveAuthor(t) ==
    Swallowing(t, "s_a_author", UpsertAuthor(db, tasks[t].request.user_id),
               [tasks[t] EXCEPT !.pc = "s_a_role"])

\* The role update; userUpdateError is logged only.
SApproveRole(t) ==
    Swallowing(t, "s_a_role", UpdateRole(db, tasks[t].request.user_id),
               [tasks[t] EXCEPT !.pc = "s_a_email"])

\* sendAuthorApprovalEmail in a try/catch, then the response.
SApproveEmail(t) ==
    /\ tasks[t].pc = "s_a_email"
    /\ \E ok \in Outcomes :
         /\ faults' = Count(ok)
         /\ sent' = IF ok THEN sent \cup {<<"approval", tasks[t].id>>} ELSE sent
    /\ Respond(t, 200, "none")
    /\ UNCHANGED db

SApprove(t) ==
    \/ SApproveLookup(t) \/ SApproveStatus(t) \/ SApproveAuthor(t)
    \/ SApproveRole(t) \/ SApproveEmail(t)

\* ------------------------------------------------------------ rejectAuthorRequest (lines 475-568)
\* The route runs isAdmin before the handler; in the handler the reason check
\* and then the admin check precede the first store call.
SRejectAuthorRequest(t) ==
    /\ load # <<>>
    /\ Head(load).op = "reject"
    /\ Begin(t, Head(load), "s_r_lookup",
             IF ~isAdmin(db.users[Head(load).user]) THEN 403 ELSE 400,
             IF ~isAdmin(db.users[Head(load).user]) THEN "forbidden"
             ELSE IF ~Head(load).body.admin_notes THEN "validation"
             ELSE "none")

SRejectLookup(t) == SLookup(t, "s_r_lookup", "s_r_status")

SRejectStatus(t) == SStatus(t, "s_r_status", "rejected", "s_r_email")

\* sendAuthorRejectionEmail in a try/catch, then the response.
SRejectEmail(t) ==
    /\ tasks[t].pc = "s_r_email"
    /\ \E ok \in Outcomes :
         /\ faults' = Count(ok)
         /\ sent' = IF ok THEN sent \cup {<<"rejection", tasks[t].id>>} ELSE sent
    /\ Respond(t, 200, "none")
    /\ UNCHANGED db

SReject(t) == SRejectLookup(t) \/ SRejectStatus(t) \/ SRejectEmail(t)

\* ------------------------------------------------------------ owner mutations (lines 1369-1894)
\* updateAuthorRequest, deleteAuthorRequest, add{Article,Journal,Book,
\* Institution}ToRequest and remove{Article,Journal,Book,Institution}FromRequest.
AddOps == {"add_article", "add_journal", "add_book", "add_institution"}

RemoveOps == {"remove_article", "remove_journal", "remove_book", "remove_institution"}

OwnerOps == {"update", "delete"} \cup AddOps \cup RemoveOps

\* The child table an add or remove handler writes.
ChildTable(op) ==
    CASE op \in {"add_article", "remove_article"} -> "author_request_articles"
      [] op \in {"add_journal", "remove_journal"} -> "author_request_journals"
      [] op \in {"add_book", "remove_book"} -> "author_request_books"
      [] OTHER -> "author_request_institutions"

\* The row of the body of an add call, or the id (the position) of the child
\* row a remove call names.
ChildItem(op, b) ==
    CASE op \in {"add_article", "remove_article"} -> Head(b.articles)
      [] op \in {"add_journal", "remove_journal"} -> Head(b.journals)
      [] op \in {"add_book", "remove_book"} -> Head(b.books)
      [] OTHER -> Head(b.institutions)

\* The bodies of the owner calls.
UpdateBody(fids) == BodyOf(TRUE, TRUE, <<>>, <<>>, <<>>, <<>>, fids, FALSE)

ArticleItem(x) == BodyOf(FALSE, FALSE, <<x>>, <<>>, <<>>, <<>>, {}, FALSE)

JournalItem(x) == BodyOf(FALSE, FALSE, <<>>, <<x>>, <<>>, <<>>, {}, FALSE)

BookItem(x) == BodyOf(FALSE, FALSE, <<>>, <<>>, <<x>>, <<>>, {}, FALSE)

InstitutionItem(x) == BodyOf(FALSE, FALSE, <<>>, <<>>, <<>>, <<x>>, {}, FALSE)

\* The workloads of the owner mutations.
OScenarios ==
    { \* an update by the admin, an update by the owner, an approval
      << Call("create", 1, 0, OneArticleBody), Call("update", 3, 1, UpdateBody({})),
         Call("update", 1, 1, UpdateBody({1})), Call("approve", 3, 1, EmptyBody) >>,
      \* a claimed article added and one removed around an approval
      << Call("create", 1, 0, OneArticleBody), Call("add_article", 1, 1, ArticleItem(2)),
         Call("approve", 3, 1, EmptyBody), Call("remove_article", 1, 1, ArticleItem(1)) >>,
      \* a deletion and additions around an approval
      << Call("create", 2, 0, BooksBody), Call("approve", 3, 1, EmptyBody),
         Call("delete", 2, 1, EmptyBody), Call("add_book", 2, 1, BookItem(2)),
         Call("add_journal", 1, 1, JournalItem(2)) >>,
      \* a deletion and a removal around a rejection
      << Call("create", 1, 0, InstitutionBody), Call("reject", 3, 1, NotesBody(TRUE)),
         Call("remove_institution", 1, 1, InstitutionItem(1)),
         Call("delete", 1, 1, EmptyBody),
         Call("add_institution", 1, 1, InstitutionItem(2)) >> }

OInit == Start(OScenarios, SUBSET {Procedure})

\* A variant of the lookup below without the user_id filter.
PendingOfAnyone(d, id, u) == PendingRequest(d, id)

\* .from('author_requests').select('*').eq('id', id).eq('user_id', req.user.id)
\*     .eq('status', 'pending').single()
OwnedPending(d, id, u) ==
    IF PendingRequest(d, id) # NoRequest /\ d.author_requests[id].user_id = u
    THEN PendingRequest(d, id)
    ELSE NoRequest

\* The handlers have no check before their first store call.
OwnerRequest(t) ==
    /\ load # <<>>
    /\ Head(load).op \in OwnerOps
    /\ Begin(t, Head(load), "o_lookup", 404, "none")

\* The step after the lookup of each handler.
OwnerFirst(op) ==
    CASE op = "update" -> "u_update"
      [] op = "delete" -> "d_files"
      [] op \in AddOps -> "o_insert"
      [] OTHER -> "o_delete"

\* The lookup every one of the handlers starts with: 404 unless the request
\* exists, is pending and is the caller's.
OwnerLookup(t) ==
    /\ tasks[t].pc = "o_lookup"
    /\ \E ok \in Outcomes :
         LET req == OwnedPending(db, tasks[t].id, tasks[t].user)
         IN  /\ faults' = Count(ok)
             /\ IF ~ok \/ req = NoRequest
                THEN Respond(t, 404, "notfound")
                ELSE Continue(t, [tasks[t] EXCEPT !.request = req,
                                                  !.pc = OwnerFirst(tasks[t].op)])
    /\ UNCHANGED <<db, sent>>

\* The request row is there (deleteAuthorRequest did not remove it).
RowExists(d, id) ==
    id \in DOMAIN d.author_requests /\ d.author_requests[id].status # "deleted"

\* .from('author_requests').update(updateData).eq('id', id).select().single():
\* the only filter is the id; bio stands for the fields of the body.
UpdateRequestFields(d, id) == [d EXCEPT !.author_requests[id].bio = TRUE]

\* updateAuthorRequest: the update of the fields; without file_ids the 200
\* follows.  An error, or no row returned to .single(), throws.
UpdateFields(t) ==
    /\ tasks[t].pc = "u_update"
    /\ \E ok \in Outcomes :
         /\ faults' = Count(ok)
         /\ IF ok /\ RowExists(db, tasks[t].id)
            THEN /\ db' = UpdateRequestFields(db, tasks[t].id)
                 /\ IF tasks[t].body.file_ids = {}
                    THEN Respond(t, 200, "none")
                    ELSE Continue(t, [tasks[t] EXCEPT !.pc = "u_files"])
            ELSE /\ Respond(t, 500, "internal")
                 /\ UNCHANGED db
    /\ UNCHANGED sent

\* updateAuthorRequest: .from('files').update({content_type: 'author_request',
\* content_id: id}).in('id', file_ids), then the 200.
UpdateFiles(t) ==
    /\ tasks[t].pc = "u_files"
    /\ \E ok \in Outcomes :
         /\ faults' = Count(ok)
         /\ IF ok
            THEN /\ db' = RetargetByIds(db, tasks[t].body.file_ids, "author_request",
                                        tasks[t].id, <<"update", tasks[t].id>>)
                 /\ Respond(t, 200, "none")
            ELSE /\ Respond(t, 500, "internal")
                 /\ UNCHANGED db
    /\ UNCHANGED sent

\* .from('files').update({content_type: null, content_id: null})
\*     .eq('content_type', 'author_request').eq('content_id', id)
DetachFiles(d, id) ==
    [d EXCEPT !.files =
        [f \in Files |->
            IF @[f].content_type = "author_request" /\ @[f].content_id = id
            THEN NoFile ELSE @[f]]]

\* deleteAuthorRequest: the files are detached; an error is logged only.
DeleteFiles(t) ==
    /\ tasks[t].pc = "d_files"
    /\ \E ok \in Outcomes :
         /\ faults' = Count(ok)
         /\ db' = IF ok THEN DetachFiles(db, tasks[t].id) ELSE db
    /\ Continue(t, [tasks[t] EXCEPT !.pc = "d_delete"])
    /\ UNCHANGED sent

\* .from('author_requests').delete().eq('id', id): the only filter is the id.
\* The row is gone (status "deleted" keeps its id from being reused) and its
\* claimed-work rows go with it.
DeleteRequestRow(d, id) ==
    [d EXCEPT !.author_requests[id].status = "deleted",
              !.author_request_articles[id] = <<>>,
              !.author_request_journals[id] = <<>>,
              !.author_request_books[id] = <<>>,
              !.author_request_institutions[id] = <<>>]

\* deleteAuthorRequest: the delete, then the 200.
DeleteRow(t) ==
    /\ tasks[t].pc = "d_delete"
    /\ \E ok \in Outcomes :
         /\ faults' = Count(ok)
         /\ IF ok
            THEN /\ db' = DeleteRequestRow(db, tasks[t].id)
                 /\ Respond(t, 200, "none")
            ELSE /\ Respond(t, 500, "internal")
                 /\ UNCHANGED db
    /\ UNCHANGED sent

\* .from(table).insert({...data, author_request_id: id}).select().single()
InsertChild(d, table, id, item) == [d EXCEPT ![table][id] = Append(@, item)]

\* add*ToRequest: the insert, then the 201.  The insert fails when the
\* request row is gone.
AddInsert(t) ==
    /\ tasks[t].pc = "o_insert"
    /\ \E ok \in Outcomes :
         /\ faults' = Count(ok)
         /\ IF ok /\ RowExists(db, tasks[t].id)
            THEN /\ db' = InsertChild(db, ChildTable(tasks[t].op), tasks[t].id,
                                      ChildItem(tasks[t].op, tasks[t].body))
                 /\ Respond(t, 201, "none")
            ELSE /\ Respond(t, 500, "internal")
                 /\ UNCHANGED db
    /\ UNCHANGED sent

\* .from(table).delete().eq('id', childId).eq('author_request_id', requestId):
\* the child row at position k of the request, when there is one.
DeleteChild(d, table, id, k) ==
    [d EXCEPT ![table][id] =
        [i \in 1..(Len(@) - (IF k \in DOMAIN @ THEN 1 ELSE 0)) |->
            IF i < k THEN @[i] ELSE @[i + 1]]]

\* remove*FromRequest: the delete, then the 200.
RemoveDelete(t) ==
    /\ tasks[t].pc = "o_delete"
    /\ \E ok \in Outcomes :
         /\ faults' = Count(ok)
         /\ IF ok
            THEN /\ db' = DeleteChild(db, ChildTable(tasks[t].op), tasks[t].id,
                                      ChildItem(tasks[t].op, tasks[t].body))
                 /\ Respond(t, 200, "none")
            ELSE /\ Respond(t, 500, "internal")
                 /\ UNCHANGED db
    /\ UNCHANGED sent

Owner(t) ==
    \/ OwnerLookup(t) \/ UpdateFields(t) \/ UpdateFiles(t)
    \/ DeleteFiles(t) \/ DeleteRow(t) \/ AddInsert(t) \/ RemoveDelete(t)

\* ------------------------------------------------------------ specification
Next ==
    \E t \in Tasks :
        \/ CreateAuthorRequest(t)
        \/ ApproveAuthorRequest(t)
        \/ RejectAuthorRequest(t)
        \/ Create(t)
        \/ Approve(t)
        \/ Reject(t)

Spec == Init /\ [][Next]_vars

SNext ==
    \E t \in Tasks :
        \/ SSubmitAuthorRequest(t)
        \/ SApproveAuthorRequest(t)
        \/ SRejectAuthorRequest(t)
        \/ SSubmit(t)
        \/ SApprove(t)
        \/ SReject(t)

SpecSimple == SInit /\ [][SNext]_vars

\* The handlers of lines 576-1894 together.
ONext ==
    \E t \in Tasks :
        \/ CreateAuthorRequest(t)
        \/ ApproveAuthorRequest(t)
        \/ RejectAuthorRequest(t)
        \/ OwnerRequest(t)
        \/ Create(t)
        \/ Approve(t)
        \/ Reject(t)
        \/ Owner(t)

SpecOwner == OInit /\ [][ONext]_vars

\* ------------------------------------------------------------ properties
\* The response just sent is the 200 of a manual-path approval.
ManualApproved ==
    /\ resp.res = 200
    /\ resp.task.op = "approve"
    /\ resp.task.path = "manual"

\* C1: of the manual-path approveAuthorRequest invocations for one request at
\* most one answers 200 (the other is refused with 404).
C1_OneApprovalSucceeds ==
    \A r \in DOMAIN db.author_requests :
        Cardinality({ g \in granted : g[1] = r /\ g[2] # 0 }) <= 1

\* C2: a request whose status is approved or rejected keeps that status in
\* every step (stated for a database without the stored procedure, where
\* every approval takes the manual path).
C2_StatusTerminal ==
    [][\A r \in DOMAIN db.author_requests :
          ~HasProcedure(db) /\ db.author_requests[r].status # "pending"
              => db'.author_requests[r].status = db.author_requests[r].status]_vars

\* C3: in every reachable state every user has at most one request that is
\* pending or approved.
C3_OneLiveRequestPerUser ==
    \A u \in Users : Cardinality(ExistingRequests(db, u)) <= 1

\* C4: in every reachable state the submitter of an approved request has the
\* role author and an authors row.
C4_ApprovedHasAuthor ==
    \A r \in DOMAIN db.author_requests :
        db.author_requests[r].status = "approved"
            => /\ db.users[db.author_requests[r].user_id] = "author"
               /\ AuthorsOf(db, db.author_requests[r].user_id) # {}

\* C5: in every reachable state no articles, journals or books row was created
\* from a request whose status is rejected (stated for a database without the
\* stored procedure).
C5_RejectedMaterializesNothing ==
    \A r \in DOMAIN db.author_requests :
        ~HasProcedure(db) /\ db.author_requests[r].status = "rejected"
            => /\ \A a \in DOMAIN db.articles : db.articles[a].from # r
               /\ \A j \in DOMAIN db.journals : db.journals[j].from # r
               /\ \A b \in DOMAIN db.books : db.books[b].from # r

\* C6: when the caller has a pending or approved request as createAuthorRequest
\* runs its existing-request query, the handler answers 400 at that step and
\* the store stays as it is.
C6_ExistingRequestConflict ==
    [][\A t \in Tasks :
          /\ tasks[t].pc = "c_check"
          /\ ExistingRequests(db, tasks[t].user) # {}
          /\ tasks'[t] # tasks[t]
          => /\ resp'.task = tasks[t]
             /\ resp'.res = 400
             /\ resp'.err \in {"pending", "approved", "store"}
             /\ db' = db]_vars

\* A submission was refused because of the caller's approved request.
C6_Witness ==
    /\ resp.res = 400
    /\ resp.task.op = "create"
    /\ resp.err = "approved"
    /\ ExistingRequests(db, resp.task.user) # {}

\* C7: when the caller's role is author or admin, createAuthorRequest answers
\* 400 after its existing-request query and the store stays as it is.
C7_RoleConflict ==
    [][\A t \in Tasks :
          /\ tasks[t].pc = "c_check"
          /\ tasks[t].role \in {"author", "admin"}
          /\ tasks'[t] # tasks[t]
          => /\ resp'.task = tasks[t]
             /\ resp'.res = 400
             /\ db' = db]_vars

\* A submission of an author without a pending or approved request was
\* refused because of the role.
C7_Witness ==
    /\ resp.res = 400
    /\ resp.task.op = "create"
    /\ resp.err = "role"
    /\ resp.task.role = "author"

\* C8: in every state an approved request with N claimed articles has exactly
\* N articles rows created from it, and one books row per claimed book (stated
\* for a database without the stored procedure).
C8_OneRowPerClaimedWork ==
    \A r \in DOMAIN db.author_requests :
        ~HasProcedure(db) /\ db.author_requests[r].status = "approved"
            => /\ Cardinality({ a \in DOMAIN db.articles : db.articles[a].from = r })
                    = Len(db.author_request_articles[r])
               /\ Cardinality({ b \in DOMAIN db.books : db.books[b].from = r })
                    = Len(db.author_request_books[r])

C10_OneInstitutionPerKey ==
    \A r1, r2 \in DOMAIN db.author_requests :
        /\ ~HasProcedure(db)
        /\ r1 # r2
        /\ db.author_requests[r1].status = "approved"
        /\ db.author_requests[r2].status = "approved"
        => \A i1 \in DOMAIN db.author_request_institutions[r1],
              i2 \in DOMAIN db.author_request_institutions[r2] :
              db.author_request_institutions[r1][i1]
                  = db.author_request_institutions[r2][i2]
              => Cardinality(ExistingInstitution(
                     db, db.author_request_institutions[r1][i1])) <= 1

\* C11: after any sequence of approvals at most one authors row has a given
\* user_id (stated for a database without the stored procedure, where every
\* approval takes the manual path).
C11_OneAuthorPerUser ==
    \A u \in Users : ~HasProcedure(db) => Cardinality(AuthorsOf(db, u)) <= 1

NotPending(d, id) ==
    id \in DOMAIN d.author_requests => d.author_requests[id].status # "pending"

\* C13: approveAuthorRequest of an admin on a request id that does not exist
\* or whose status is approved or rejected answers 404 and changes no row of
\* the store.
C13_ApproveNotPendingIs404 ==
    [][\A t \in Tasks :
          /\ tasks[t].pc \in {"a_lookup", "s_a_lookup"}
          /\ tasks'[t] # tasks[t]
          /\ NotPending(db, tasks[t].id)
          => /\ resp'.res = 404
             /\ resp'.task = tasks[t]
             /\ tasks'[t] = IdleTask
             /\ db' = db
             /\ granted' = granted]_vars


\* C14: rejectAuthorRequest of an admin on a request that is rejected, approved
\* or absent answers 404, sends no rejection email and leaves the rows of
\* author_requests as they are; so does the second of two rejections in a row.
C14_RejectNotPendingIs404 ==
    [][\A t \in Tasks :
          /\ tasks[t].pc \in {"r_lookup", "s_r_lookup"}
          /\ tasks'[t] # tasks[t]
          /\ NotPending(db, tasks[t].id)
          => /\ resp'.res = 404
             /\ resp'.task = tasks[t]
             /\ tasks'[t] = IdleTask
             /\ sent' = sent
             /\ db'.author_requests = db.author_requests]_vars


\* C15: rejectAuthorRequest of an admin without a reason answers 400 before
\* any store access: no row changes, the request keeps its status and no
\* email is sent.
C15_RejectNeedsReason ==
    [][/\ load # <<>>
       /\ load' # load
       /\ Head(load).op = "reject"
       /\ isAdmin(db.users[Head(load).user])
       /\ ~Head(load).body.admin_notes
       => /\ resp'.res = 400
          /\ resp'.err = "validation"
          /\ tasks' = tasks
          /\ db' = db
          /\ sent' = sent
          /\ faults' = faults]_vars

C15_Witness ==
    /\ resp.res = 400
    /\ resp.task.op = "reject"
    /\ resp.task.role = "admin"
    /\ ~resp.task.body.admin_notes
    /\ resp.task.id \in DOMAIN db.author_requests
    /\ db.author_requests[resp.task.id].status = "pending"
    /\ <<"rejection", resp.task.id>> \notin sent


\* C16: for a caller whose role is not admin, approveAuthorRequest and
\* rejectAuthorRequest answer 403 for every input, a rejection without a
\* reason included, and change no state.
C16_NonAdminForbidden ==
    [][/\ load # <<>>
       /\ load' # load
       /\ Head(load).op \in {"approve", "reject"}
       /\ db.users[Head(load).user] # "admin"
       => /\ resp'.res = 403
          /\ resp'.err = "forbidden"
          /\ tasks' = tasks
          /\ db' = db
          /\ sent' = sent
          /\ granted' = granted
          /\ faults' = faults]_vars

C16_Witness ==
    /\ resp.res = 403
    /\ resp.task.op = "reject"
    /\ resp.task.role # "admin"
    /\ ~resp.task.body.admin_notes
    /\ resp.task.id \in DOMAIN db.author_requests
    /\ db.author_requests[resp.task.id].status = "pending"


\* The steps that call the notification gateway.
EmailPcs == {"c_notify", "a_email", "a_rpc_email", "r_email", "s_a_email", "s_r_email"}

\* C17: a failure of the notification gateway never fails the operation: the
\* step that sends the email answers the success response of its handler and
\* leaves the store as it is, whether the email is delivered or not.
C17_EmailFailureSwallowed ==
    [][\A t \in Tasks :
          /\ tasks[t].pc \in EmailPcs
          /\ tasks'[t] # tasks[t]
          => /\ resp'.res = IF tasks[t].op = "create" THEN 201 ELSE 200
             /\ resp'.err = "none"
             /\ resp'.task = tasks[t]
             /\ tasks'[t] = IdleTask
             /\ db' = db]_vars

\* The approval email failed, the answer is 200 and the request is approved.
C17_Witness ==
    /\ resp.res = 200
    /\ resp.task.pc = "a_email"
    /\ <<"approval", resp.task.id>> \notin sent
    /\ faults > 0
    /\ db.author_requests[resp.task.id].status = "approved"


\* C18: every 200 response of approveAuthorRequest, of the fast path or of
\* the manual sequence, carries an author_id, and it is the id of an authors
\* row of the submitter.
C18_ResponseHasAuthorId ==
    \A g \in granted :
        g[2] \in AuthorsOf(db, db.author_requests[g[1]].user_id)


\* The steps of the manual sequence.
ManualPcs ==
    {"a_author", "a_role", "a_inst_check", "a_inst_insert", "a_inst_author",
     "a_art_insert", "a_art_link", "a_art_files", "a_jrn_insert", "a_jrn_files",
     "a_book_insert", "a_book_link", "a_book_files", "a_status", "a_email"}

\* C19: one invocation of approveAuthorRequest applies its effects by one
\* path.  When the stored procedure reports success the invocation runs no
\* manual step and writes nothing more; when it reports an error or throws,
\* the procedure has written nothing and the manual sequence starts at its
\* first step and runs to the status update before it answers 200.
C19_OnePathPerInvocation ==
    [][\A t \in Tasks :
          tasks'[t] # tasks[t] =>
             /\ tasks[t].pc = "a_rpc" /\ db' # db
                => tasks'[t].path = "rpc" /\ tasks'[t].pc = "a_rpc_email"
             /\ tasks[t].pc = "a_rpc" /\ db' = db
                => tasks'[t].path = "manual" /\ tasks'[t].pc = "a_author"
             /\ tasks[t].path = "rpc"
                => /\ tasks[t].pc = "a_rpc_email"
                   /\ db' = db
                   /\ resp'.res = 200
                   /\ resp'.task.author = 0
             /\ tasks[t].pc \in ManualPcs => tasks[t].path = "manual"
             /\ tasks[t].path = "manual" /\ resp'.res = 200
                => /\ tasks[t].pc = "a_email"
                   /\ tasks[t].author \in
                         AuthorsOf(db, tasks[t].request.user_id)
                   /\ db.author_requests[tasks[t].id].status # "pending"]_vars

\* The procedure succeeded: the answer is 200, the request is approved, the
\* submitter has an authors row and the handler ran no upsert of its own.
C19_Witness ==
    /\ resp.res = 200
    /\ resp.task.path = "rpc"
    /\ resp.task.author = 0
    /\ db.author_requests[resp.task.id].status = "approved"
    /\ AuthorsOf(db, resp.task.request.user_id) # {}


\* C20: createAuthorRequest with first_name or last_name missing answers 400
\* before any mutation, whoever calls it and whatever else the payload
\* holds: no row is written and no file is retargeted.
C20_CreateNeedsNames ==
    [][/\ load # <<>>
       /\ load' # load
       /\ Head(load).op = "create"
       /\ ~(Head(load).body.first_name /\ Head(load).body.last_name)
       => /\ resp'.res = 400
          /\ resp'.err = "validation"
          /\ tasks' = tasks
          /\ db' = db
          /\ sent' = sent
          /\ faults' = faults]_vars

\* A payload with works and files but no last_name was refused: its files are
\* attached to nothing.
C20_Witness ==
    /\ resp.res = 400
    /\ resp.task.op = "create"
    /\ ~resp.task.body.last_name
    /\ resp.task.body.articles # <<>>
    /\ \A f \in resp.task.body.file_ids : db.files[f] = NoFile
    /\ \A r \in DOMAIN db.author_requests :
          db.author_requests[r].user_id # resp.task.user


\* C21: a user whose role is user and whose requests are all rejected can
\* submit again: the checks of createAuthorRequest find no conflict, the
\* insert adds a request with status pending and leaves the earlier rows as
\* they are.
C21_ResubmitAfterRejection ==
    [][\A t \in Tasks :
          /\ tasks'[t] # tasks[t]
          /\ faults' = faults
          => /\ /\ tasks[t].pc = "c_check"
                /\ tasks[t].role = "user"
                /\ \A r \in DOMAIN db.author_requests :
                      db.author_requests[r].user_id = tasks[t].user
                      => db.author_requests[r].status = "rejected"
                => tasks'[t].pc = "c_insert"
             /\ tasks[t].pc = "c_insert"
                => /\ Len(db'.author_requests) = Len(db.author_requests) + 1
                   /\ \A r \in DOMAIN db.author_requests :
                         db'.author_requests[r] = db.author_requests[r]
                   /\ db'.author_requests[tasks'[t].id].status = "pending"
                   /\ db'.author_requests[tasks'[t].id].user_id = tasks[t].user
                   /\ tasks'[t].id = Len(db.author_requests) + 1]_vars

\* A submission was answered 201 for a user who has a rejected request.
C21_Witness ==
    /\ resp.res = 201
    /\ resp.task.op = "create"
    /\ db.author_requests[resp.task.id].status = "pending"
    /\ \E r \in DOMAIN db.author_requests :
          /\ r < resp.task.id
          /\ db.author_requests[r].user_id = resp.task.user
          /\ db.author_requests[r].status = "rejected"
    /\ \A r \in DOMAIN db.author_requests :
          db.author_requests[r].user_id = resp.task.user /\ r # resp.task.id
          => db.author_requests[r].status = "rejected"


\* The claimed-work rows of every request.
ChildRows(d) ==
    <<d.author_request_articles, d.author_request_journals,
      d.author_request_books, d.author_request_institutions>>

\* C23: no step of approveAuthorRequest or rejectAuthorRequest deletes or
\* modifies a claimed-work row: the child rows of every request are the same
\* after the step as before it.
C23_ReviewKeepsChildRows ==
    [][\A t \in Tasks :
          /\ tasks[t].op \in {"approve", "reject"}
          /\ tasks'[t] # tasks[t]
          => ChildRows(db') = ChildRows(db)]_vars

\* An approval was answered 200 and the request still has its claimed
\* articles and institutions.
C23_Witness ==
    /\ resp.res = 200
    /\ resp.task.op = "approve"
    /\ db.author_requests[resp.task.id].status = "approved"
    /\ db.author_request_articles[resp.task.id] = <<1, 2>>
    /\ db.author_request_institutions[resp.task.id] = <<1>>
    /\ db.articles # <<>>


\* The place of a step of the approval in the order author upsert, role
\* update, institutions, articles, journals, books, status update, email.
OrderRank(pc) ==
    CASE pc \in {"a_author", "s_a_author"} -> 1
      [] pc \in {"a_role", "s_a_role"} -> 2
      [] pc \in {"a_inst_check", "a_inst_insert", "a_inst_author"} -> 3
      [] pc \in {"a_art_insert", "a_art_link", "a_art_files"} -> 4
      [] pc \in {"a_jrn_insert", "a_jrn_files"} -> 5
      [] pc \in {"a_book_insert", "a_book_link", "a_book_files"} -> 6
      [] pc \in {"a_status", "s_a_status"} -> 7
      [] pc \in {"a_email", "s_a_email"} -> 8
      [] OTHER -> 0

\* C24: within one approval that does not go through the stored procedure the
\* writes occur in the order author upsert, role update, institutions,
\* articles, journals, books, status update, email: no step is followed by a
\* step of an earlier stage, the authors row and the role are written before
\* the status, and the status before the email.
C24_ManualOrder ==
    [][\A t \in Tasks :
          /\ tasks'[t] # tasks[t]
          /\ OrderRank(tasks[t].pc) > 0
          => /\ OrderRank(tasks'[t].pc) > 0
                => OrderRank(tasks'[t].pc) >= OrderRank(tasks[t].pc)
             /\ OrderRank(tasks[t].pc) = 7
                => /\ AuthorsOf(db, tasks[t].request.user_id) # {}
                   /\ db.users[tasks[t].request.user_id] = "author"
             /\ sent' # sent
                => /\ OrderRank(tasks[t].pc) = 8
                   /\ db.author_requests[tasks[t].id].status # "pending"]_vars


\* The request claims at least one article, journal or book.
ClaimsWork(req) == req.articles # <<>> \/ req.journals # <<>> \/ req.books # <<>>

\* C26: after a 200 of a manual-path approval of a request that claims at
\* least one article, journal or book, no file is attached to the request, and
\* every file that was attached to it when the approval read it is attached
\* to an article, a journal or a book.
C26_NoFileLeftOnRequest ==
    /\ ManualApproved
    /\ ~HasProcedure(db)
    /\ ClaimsWork(resp.task.request)
    => /\ AttachedTo(db, resp.task.id) = {}
       /\ \A f \in resp.task.had :
             db.files[f].content_type \in {"article", "journal", "book"}


C28_CreateAllOrNothing ==
    resp.task.op = "create" /\ resp.res >= 400
    => resp.task.id \notin DOMAIN db.author_requests


\* C22 as stated: a submission-mutation call on a pending request is
\* permitted exactly when the caller is the submitter of the request or has
\* role admin; for every other caller it fails and changes no row.
C22_OwnerOrAdmin ==
    [][\A t \in Tasks :
          /\ tasks[t].pc = "o_lookup"
          /\ tasks'[t] # tasks[t]
          /\ faults' = faults
          /\ ~NotPending(db, tasks[t].id)
          => /\ db' = db
             /\ tasks'[t].pc # "idle"
                <=> \/ db.author_requests[tasks[t].id].user_id = tasks[t].user
                    \/ tasks[t].role = "admin"]_vars

\* C22 as the handlers behave: the call is permitted exactly when the caller
\* is the submitter of the request; every other caller, an admin included, is
\* answered 404 and changes no row.
C22_OwnerOnly ==
    [][\A t \in Tasks :
          /\ tasks[t].pc = "o_lookup"
          /\ tasks'[t] # tasks[t]
          /\ faults' = faults
          /\ ~NotPending(db, tasks[t].id)
          => /\ db' = db
             /\ IF db.author_requests[tasks[t].id].user_id = tasks[t].user
                THEN tasks'[t].pc = OwnerFirst(tasks[t].op)
                ELSE /\ tasks'[t] = IdleTask
                     /\ resp'.res = 404
                     /\ resp'.task = tasks[t]]_vars

\* An update of the admin on a pending request of user 1 was answered 404.
C22_Witness ==
    /\ resp.res = 404
    /\ resp.task.op = "update"
    /\ resp.task.role = "admin"
    /\ faults = 0
    /\ resp.task.id \in DOMAIN db.author_requests
    /\ db.author_requests[resp.task.id].status = "pending"
    /\ db.author_requests[resp.task.id].user_id # resp.task.user
    /\ ~db.author_requests[resp.task.id].bio


\* C25: owner mutations take effect only while the request is pending: no
\* step of updateAuthorRequest, deleteAuthorRequest, add*ToRequest or
\* remove*FromRequest changes or deletes the row of a request whose status is
\* approved or rejected, or adds or removes one of its claimed-work rows
\* (stated for a database without the stored procedure).
C25_OwnerWritesOnlyWhilePending ==
    [][\A t \in Tasks :
          /\ tasks[t].op \in OwnerOps
          /\ tasks'[t] # tasks[t]
          /\ ~HasProcedure(db)
          /\ tasks[t].id \in DOMAIN db.author_requests
          /\ db.author_requests[tasks[t].id].status \in {"approved", "rejected"}
          => /\ db'.author_requests[tasks[t].id] = db.author_requests[tasks[t].id]
             /\ ChildRows(db') = ChildRows(db)]_vars


\* Row x of a claimed-work table of request rid has a canonical row that was
\* created from it.
Materialized(rows, x, rid) ==
    \E c \in DOMAIN rows : rows[c].title = x /\ rows[c].from = rid

\* C29: when a manual-path approval has answered 200 and the request is
\* approved, every claimed article, journal and book of the request has a
\* canonical row created from it.
C29_MaterializationComplete ==
    /\ ManualApproved
    /\ ~HasProcedure(db)
    /\ db.author_requests[resp.task.id].status = "approved"
    => LET rid == resp.task.id
       IN  /\ \A i \in DOMAIN db.author_request_articles[rid] :
                 Materialized(db.articles, db.author_request_articles[rid][i], rid)
           /\ \A i \in DOMAIN db.author_request_journals[rid] :
                 Materialized(db.journals, db.author_request_journals[rid][i], rid)
           /\ \A i \in DOMAIN db.author_request_books[rid] :
                 Materialized(db.books, db.author_request_books[rid][i], rid)


\* C30: no step of an author-request operation takes a file away from a
\* canonical entity: a files row whose content_type is article, journal or
\* book keeps its content_type and content_id (stated for a database without
\* the stored procedure).
C30_CanonicalFilesKept ==
    [][\A f \in Files :
          /\ ~HasProcedure(db)
          /\ db.files[f].content_type \in {"article", "journal", "book"}
          => /\ db'.files[f].content_type = db.files[f].content_type
             /\ db'.files[f].content_id = db.files[f].content_id]_vars

=============================================================================
